---- MODULE Spec2Model ----
(***************************************************************************)
(* Node-graph execution engine of the player script editor:                *)
(*   - the editor graph (nodes, connections, connection validation),       *)
(*   - the node behaviours (Float, axis nodes, Multiply, OnUpdate,         *)
(*     Transform),                                                         *)
(*   - PlayerLogicProcessor: entry-point discovery, the per-frame result   *)
(*     cache, processNodeDirectly / getNodeInputs / followExecutionFlow.   *)
(* The chain of awaiting async calls of one frame is an explicit stack;    *)
(* one action is one call, one loop iteration, one return or one catch.    *)
(***************************************************************************)
EXTENDS Integers, Sequences, FiniteSets, TLC

\* ------------------------------------------------------------------ bounds
MaxNodes == 5      \* nodes in the editor at one time
MaxConns == 5      \* connections in the editor at one time
MaxEdits == 1      \* structural edits made after the editor was restored

\* The engine raises RangeError when the call stack is exhausted.  An await
\* suspends the caller, so only the calls made since the last resumption are
\* nested on the call stack.  An acyclic graph of N nodes nests at most 2N+1
\* calls, so this limit is reached only by recursion that never ends (cyclic
\* data wires).  The frame in which the stack runs out is not fixed: a call at
\* depth StackLimit may still succeed, one beyond it may not.
StackLimit == 2 * MaxNodes + 2

\* A graph with two cyclic wires can start a new descent after each exhausted
\* one, and the chain of awaiting calls then grows without end; the model
\* follows such a chain up to this length.
MaxChain == 2 * StackLimit + 2

\* --------------------------------------------------------------- constants
Gravity == 600

\* ------------------------------------------------------------- data model
Ids == 1..MaxNodes

\* "Faulty" stands for a node whose data() throws.
Kinds == {"OnUpdate", "Float", "HAxis", "VAxis", "Multiply", "Transform", "Faulty"}

FloatValues == {-300, 0, 4}

InputNames == {"execIn", "exec", "a", "b", "x", "y"}

NodeInputs(kind) ==
  CASE kind = "Multiply"  -> <<"a", "b">>
    [] kind = "Transform" -> <<"execIn", "x", "y">>
    [] kind = "Faulty"    -> <<"execIn">>
    [] OTHER              -> <<>>

NodeOutputs(kind) ==
  CASE kind = "OnUpdate"  -> <<"execOut">>
    [] kind = "Float"     -> <<"value">>
    [] kind = "HAxis"     -> <<"value">>
    [] kind = "VAxis"     -> <<"value">>
    [] kind = "Multiply"  -> <<"result">>
    [] kind = "Faulty"    -> <<"value">>
    [] OTHER              -> <<>>

Range(s) == {s[i] : i \in 1..Len(s)}

SocketName(kind, port) ==
  IF port \in {"execIn", "execOut"} THEN "exec"
  ELSE IF kind = "Float" THEN "float"
  ELSE "number"

Node(id, kind, ctl) == [id |-> id, kind |-> kind, ctl |-> ctl]
NoNode == Node(0, "none", 0)

Conn(s, so, t, ti) == [source |-> s, sourceOutput |-> so, target |-> t, targetInput |-> ti]

GetNode(nodes, id) ==
  IF \E i \in 1..Len(nodes) : nodes[i].id = id
  THEN nodes[CHOOSE i \in 1..Len(nodes) : nodes[i].id = id]
  ELSE NoNode

\* values travelling along data wires: a number or null
Num(n) == [null |-> FALSE, n |-> n]
NullV  == [null |-> TRUE, n |-> 0]
ToNumber(v) == IF v.null THEN 0 ELSE v.n

\* node results
ResNull      == [t |-> "null", v |-> 0]
ResExec      == [t |-> "exec", v |-> 0]
ResValue(n)  == [t |-> "value", v |-> n]
ResResult(b) == [t |-> "result", v |-> IF b THEN 1 ELSE 0]

EmptyInputs == [n \in InputNames |-> <<>>]

\* ------------------------------------------------------------ axis nodes
Min2(a, b) == IF a < b THEN a ELSE b
Max2(a, b) == IF a > b THEN a ELSE b
\* the sum of the two sources passed on as it is
Unclamped(value, lo, hi) == value

clamp(value, lo, hi) == Min2(Max2(value, lo), hi)

B2I(b, n) == IF b THEN n ELSE 0

KeyboardValueH(keys) == B2I(keys.ArrowLeft, -1) + B2I(keys.ArrowRight, 1)
KeyboardValueV(keys) == B2I(keys.ArrowUp, -1) + B2I(keys.ArrowDown, 1)

TouchValueH(ctx) ==
  IF ctx.inputState.def
  THEN B2I(ctx.inputState.left, -1) + B2I(ctx.inputState.right, 1)
  ELSE 0

\* touchValue = jump ? -1 : 0, then overwritten with 1 when the player's
\* keyboardState.down (the touch "down" button) is set
TouchValueV(ctx, pl) ==
  IF ctx.inputState.def
  THEN LET jumpValue == B2I(ctx.inputState.jump, -1)
       IN  IF pl.kbDown THEN 1 ELSE jumpValue
  ELSE 0

GetHorizontalAxisValue(keys, ctx) ==
  clamp(KeyboardValueH(keys) + TouchValueH(ctx), -1, 1)

GetVerticalAxisValue(keys, ctx, pl) ==
  clamp(KeyboardValueV(keys) + TouchValueV(ctx, pl), -1, 1)

\* ------------------------------------------------------------------ state
VARIABLES
  editorNodes,        \* editor.getNodes(): sequence of nodes, insertion order
  editorConns,        \* editor.getConnections(): sequence of connections
  edits,              \* number of structural edits made so far
  updateEntryPoints,  \* processor.updateEntryPoints (node objects)
  nodeResultCache,    \* processor.nodeResultCache
  isPlayerOnGround,   \* processor._isPlayerOnGround
  player,             \* the actor as the processor sees it in this frame
  keyStates,          \* module-level keyStates of the axis nodes
  stack,              \* awaiting async calls of the frame in progress
  depth,              \* calls nested on the engine's call stack right now
  ctl,                \* what happens next: idle, call, run, ret or throw
  epoch,              \* parity of the frame number
  startEntries,       \* entry points at the start of the last frame (-1: none yet)
  pndStarts,          \* per node: processNodeDirectly bodies started this frame
  evalCount,          \* per node: data() invocations this frame
  calls,              \* velocity setter calls of this frame, in order
  rejected,           \* a processLogic promise was rejected
  axis,               \* last axis evaluation of the stand-alone axis check
  adapter,            \* the Player game object's script fields (Player.js)
  tickEntryPoints,    \* the array the for-of loop of processLogic iterates
  editsAtTick,        \* value of edits when the adapter last called processLogic
  blockedAttempts,    \* connection attempts the validation pipe has blocked
  motion,             \* last evaluation of the stand-alone Transform check
  persist,            \* script state: live editor, saved state, rebuilt editor
  scene,              \* EditorScene: scene.player and the Player objects made
  actorAccess,        \* members of the actor the engine touched in this frame
  flow                \* last run of the stand-alone followExecutionFlow check

vars == <<editorNodes, editorConns, edits, updateEntryPoints, nodeResultCache,
          isPlayerOnGround, player, keyStates, stack, depth, ctl, epoch,
          startEntries, pndStarts, evalCount, calls, rejected, axis,
          adapter, tickEntryPoints, editsAtTick, blockedAttempts, motion,
                 persist, scene, actorAccess, flow>>

\* ------------------------------------------------------- actor, contexts
InputStateUndef == [def |-> FALSE, left |-> FALSE, right |-> FALSE, jump |-> FALSE]
InputState(l, r, j) == [def |-> TRUE, left |-> l, right |-> r, jump |-> j]

Player(hasBody, touching, blocked, inputState, kbDown) ==
  [hasBody |-> hasBody, touchingDown |-> touching, blockedDown |-> blocked,
   inputState |-> inputState, kbDown |-> kbDown]

NoKeys == [ArrowLeft |-> FALSE, ArrowRight |-> FALSE, ArrowUp |-> FALSE, ArrowDown |-> FALSE]

\* context built by processLogic
TickContext(pl, ground) ==
  [full |-> TRUE, isOnGround |-> ground, gravity |-> Gravity,
   inputState |-> IF pl.inputState.def THEN pl.inputState
                  ELSE InputState(FALSE, FALSE, FALSE)]

\* context literal built by getNodeInputs for a pulled source node
PullContext(pl, ground) ==
  [full |-> FALSE, isOnGround |-> ground, gravity |-> Gravity,
   inputState |-> pl.inputState]

\* members of the actor processLogic touches before the first node runs:
\* body.touching.down || body.blocked.down, then updatePlayerState
ProcessorAccess(pl) ==
  IF ~pl.hasBody THEN {"body"}
  ELSE {"body.touching.down"} \cup (IF pl.touchingDown THEN {} ELSE {"body.blocked.down"})
       \cup {"x", "y", "body.velocity.x", "body.velocity.y", "inputState"}

\* ---------------------------------------------------------------- nodes
\* a velocity setter call by node id: raw is the input value it was computed
\* from, v2 the argument, recorded doubled (v2 = 2 * value) so that Y * 0.5
\* stays integral
SetterCall(id, ax, raw, v2) == [by |-> id, axis |-> ax, raw |-> raw, v2 |-> v2]

RawInput(inputs, name) == IF Len(inputs[name]) > 0 THEN ToNumber(inputs[name][1]) ELSE 0

ExecAlwaysConnected(inputs) == TRUE

IsExecConnected(inputs) == Len(inputs["execIn"]) > 0

\* a vertical velocity that takes a negative Y wherever the actor is
JumpAnywhere2(inputs, ctx) ==
  IF Len(inputs["y"]) > 0
  THEN LET rawYValue == ToNumber(inputs["y"][1])
       IN  IF rawYValue < 0 THEN 2 * rawYValue
           ELSE IF rawYValue > 0 THEN 2 * ctx.gravity + rawYValue
           ELSE 0
  ELSE 0

\* doubled vertical velocity computed by TransformNode.data, 0: leave alone
YVelocity2(inputs, ctx) ==
  IF Len(inputs["y"]) > 0
  THEN LET rawYValue == ToNumber(inputs["y"][1])
       IN  IF ctx.isOnGround /\ rawYValue < 0 THEN 2 * rawYValue
           ELSE IF rawYValue > 0 THEN 2 * ctx.gravity + rawYValue
           ELSE 0
  ELSE 0

XVelocity2(inputs) ==
  IF Len(inputs["x"]) > 0 THEN 2 * ToNumber(inputs["x"][1]) ELSE 0

\* TransformNode.data: result and the setter calls it makes
TransformCalls(id, inputs, ctx, pl) ==
  IF ~IsExecConnected(inputs) THEN <<>>
  ELSE IF ~pl.hasBody THEN <<>>
  ELSE <<SetterCall(id, "x", RawInput(inputs, "x"), XVelocity2(inputs))>> \o
       (IF YVelocity2(inputs, ctx) # 0
        THEN <<SetterCall(id, "y", RawInput(inputs, "y"), YVelocity2(inputs, ctx))>>
        ELSE <<>>)

TransformResult(inputs, pl) == ResResult(IsExecConnected(inputs) /\ pl.hasBody)

\* TransformNode.data of the rete-ts copy of the node (exec input named
\* "exec"): the setter calls it makes; vy is player.body.velocity.y
TransformCallsTs(id, inputs, ctx, pl, vy) ==
  LET isExecConnected == Len(inputs["exec"]) > 0
      hasMovementInput == Len(inputs["x"]) > 0 \/ Len(inputs["y"]) > 0
      xValue == IF Len(inputs["x"]) > 0 THEN ToNumber(inputs["x"][1]) ELSE 0
      yValue == IF Len(inputs["y"]) > 0 THEN ToNumber(inputs["y"][1]) ELSE 0
      fastFallVelocity == vy + 20
  IN  IF ~isExecConnected \/ ~hasMovementInput THEN <<>>
      ELSE IF ~pl.hasBody THEN <<>>
      ELSE <<SetterCall(id, "x", xValue, 2 * xValue)>> \o
           (IF ctx.isOnGround /\ yValue < 0
            THEN <<SetterCall(id, "y", yValue, 2 * yValue)>>
            ELSE IF ~ctx.isOnGround /\ yValue > 0
            THEN <<SetterCall(id, "y", yValue, 2 * fastFallVelocity)>>
            ELSE <<>>)

\* numbers are doubles and never wrap; the model follows magnitudes up to
\* NumberCap and keeps a larger product at NumberCap with its sign
NumberCap == 40000
Capped(n) == IF n > NumberCap THEN NumberCap ELSE IF n < -NumberCap THEN -NumberCap ELSE n

MultiplyData(inputs) ==
  LET aValue == IF Len(inputs["a"]) > 0 THEN ToNumber(inputs["a"][1]) ELSE 0
      bValue == IF Len(inputs["b"]) > 0 THEN ToNumber(inputs["b"][1]) ELSE 0
  IN  ResValue(Capped(aValue * bValue))

DataThrows(node) == node.kind = "Faulty"

NodeData(node, inputs, ctx, pl, keys) ==
  CASE node.kind = "OnUpdate"  -> ResExec
    [] node.kind = "Float"     -> ResValue(node.ctl)
    [] node.kind = "HAxis"     -> ResValue(GetHorizontalAxisValue(keys, ctx))
    [] node.kind = "VAxis"     -> ResValue(GetVerticalAxisValue(keys, ctx, pl))
    [] node.kind = "Multiply"  -> MultiplyData(inputs)
    [] node.kind = "Transform" -> TransformResult(inputs, pl)
    [] OTHER                   -> ResNull

NodeCalls(node, inputs, ctx, pl) ==
  IF node.kind = "Transform" THEN TransformCalls(node.id, inputs, ctx, pl) ELSE <<>>

\* members of the actor a node's data() touches besides the velocity setters
NodeAccess(node, inputs, ctx, pl) ==
  CASE node.kind = "Transform" -> IF IsExecConnected(inputs) THEN {"body"} ELSE {}
    [] node.kind = "VAxis"     -> IF ctx.inputState.def THEN {"keyboardState.down"} ELSE {}
    [] OTHER                   -> {}

\* ------------------------------------------------------------ the editor
AllowsEveryConnection(nodes, c) == TRUE

\* connection validation pipe ('connectioncreate'): TRUE lets the connection in
ConnectionAllowed(nodes, c) ==
  LET src == GetNode(nodes, c.source)
      tgt == GetNode(nodes, c.target)
      hasOut == src # NoNode /\ c.sourceOutput \in Range(NodeOutputs(src.kind))
      hasIn  == tgt # NoNode /\ c.targetInput \in Range(NodeInputs(tgt.kind))
  IN  IF ~hasOut \/ ~hasIn THEN TRUE
      ELSE IF SocketName(tgt.kind, c.targetInput) = "exec"
           THEN SocketName(src.kind, c.sourceOutput) = "exec"
           ELSE TRUE

\* ids are never reused while a node object or a connection still names them
UsedIds ==
  {editorNodes[i].id : i \in 1..Len(editorNodes)} \cup
  {updateEntryPoints[i].id : i \in 1..Len(updateEntryPoints)} \cup
  {tickEntryPoints[i].id : i \in 1..Len(tickEntryPoints)} \cup
  {editorConns[i].source : i \in 1..Len(editorConns)} \cup
  {editorConns[i].target : i \in 1..Len(editorConns)}

RemoveAt(s, i) == SubSeq(s, 1, i - 1) \o SubSeq(s, i + 1, Len(s))

\* no continuation of a processLogic call is pending: the engine starts the
\* next task (an update callback, an editor event) only then
Idle == ctl.op = "idle"

\* edits followed; with the adapter attached one more, so that two edits can
\* fall between two update callbacks
EditLimit == IF adapter.attached THEN MaxEdits + 1 ELSE MaxEdits

AddNode ==
  /\ Idle /\ ~adapter.inUpdate /\ edits < EditLimit /\ Len(editorNodes) < MaxNodes
  /\ Ids \ UsedIds # {}
  /\ \E kind \in Kinds : \E v \in (IF kind = "Float" THEN FloatValues ELSE {0}) :
       LET id == CHOOSE i \in Ids \ UsedIds : \A j \in Ids \ UsedIds : i <= j
       IN  editorNodes' = Append(editorNodes, Node(id, kind, v))
  /\ edits' = edits + 1
  /\ UNCHANGED <<editorConns, updateEntryPoints, nodeResultCache, isPlayerOnGround,
                 player, keyStates, stack, depth, ctl, epoch, startEntries, pndStarts,
                 evalCount, calls, rejected, axis, adapter,
                 tickEntryPoints, editsAtTick, blockedAttempts, motion,
                 persist, scene, actorAccess, flow>>

\* editor.removeNode: the node leaves, connections naming it stay
RemoveNode ==
  /\ Idle /\ ~adapter.inUpdate /\ edits < EditLimit
  /\ \E i \in 1..Len(editorNodes) : editorNodes' = RemoveAt(editorNodes, i)
  /\ edits' = edits + 1
  /\ UNCHANGED <<editorConns, updateEntryPoints, nodeResultCache, isPlayerOnGround,
                 player, keyStates, stack, depth, ctl, epoch, startEntries, pndStarts,
                 evalCount, calls, rejected, axis, adapter,
                 tickEntryPoints, editsAtTick, blockedAttempts, motion,
                 persist, scene, actorAccess, flow>>

\* a connection is made between an existing output and an existing input,
\* and reaches the editor only through the validation pipe
AddConnection ==
  /\ Idle /\ ~adapter.inUpdate /\ edits < EditLimit /\ Len(editorConns) < MaxConns
  /\ \E i, j \in 1..Len(editorNodes) :
       \E so \in Range(NodeOutputs(editorNodes[i].kind)) :
         \E ti \in Range(NodeInputs(editorNodes[j].kind)) :
           LET c == Conn(editorNodes[i].id, so, editorNodes[j].id, ti)
           IN  IF ConnectionAllowed(editorNodes, c)
               THEN editorConns' = Append(editorConns, c) /\ blockedAttempts' = blockedAttempts
               ELSE editorConns' = editorConns /\ blockedAttempts' = blockedAttempts + 1
  /\ edits' = edits + 1
  /\ UNCHANGED <<editorNodes, updateEntryPoints, nodeResultCache, isPlayerOnGround,
                 player, keyStates, stack, depth, ctl, epoch, startEntries, pndStarts,
                 evalCount, calls, rejected, axis, adapter, tickEntryPoints,
                 editsAtTick, motion,
                 persist, scene, actorAccess, flow>>

RemoveConnection ==
  /\ Idle /\ ~adapter.inUpdate /\ edits < EditLimit
  /\ \E i \in 1..Len(editorConns) : editorConns' = RemoveAt(editorConns, i)
  /\ edits' = edits + 1
  /\ UNCHANGED <<editorNodes, updateEntryPoints, nodeResultCache, isPlayerOnGround,
                 player, keyStates, stack, depth, ctl, epoch, startEntries, pndStarts,
                 evalCount, calls, rejected, axis, adapter,
                 tickEntryPoints, editsAtTick, blockedAttempts, motion,
                 persist, scene, actorAccess, flow>>

\* --------------------------------------------------------- the processor
\* a findEntryPoints that took every node for an entry point
EveryNodeAnEntryPoint(nodes) == nodes

findEntryPoints(nodes) ==
  LET IsUpdate(n) == n.kind = "OnUpdate" IN SelectSeq(nodes, IsUpdate)

\* connections.filter(conn => conn.source === id && conn.sourceOutput === out)
ConnectionsFromOutput(conns, id, out) ==
  LET Hit(c) == c.source = id /\ c.sourceOutput = out IN SelectSeq(conns, Hit)

\* connections.filter(conn => conn.target === id && conn.targetInput === name)
ConnectionsToInput(conns, id, name) ==
  LET Hit(c) == c.target = id /\ c.targetInput = name IN SelectSeq(conns, Hit)

NoEntry == [has |-> FALSE, res |-> ResNull, ep |-> 0]
KeptCache(cache) == cache

ClearedCache(cache) == [id \in Ids |-> NoEntry]
CacheHas(cache, id) == cache[id].has
CacheSet(cache, id, res, ep) == [cache EXCEPT ![id] = [has |-> TRUE, res |-> res, ep |-> ep]]

IsTransformNode(kind) ==
  /\ "x" \in Range(NodeInputs(kind)) /\ "y" \in Range(NodeInputs(kind))
  /\ "execIn" \in Range(NodeInputs(kind))

IsOnUpdateNode(kind) ==
  /\ "execOut" \in Range(NodeOutputs(kind))
  /\ "execIn" \notin Range(NodeInputs(kind))

HasExecOut(kind) == "execOut" \in Range(NodeOutputs(kind))

CatchesBelowProcessLogic(fn) == fn \in {"PND", "GNI", "FEF"}

CatchesOutsideNode(fn) == fn \in {"PL", "GNI", "FEF"}

\* every async function of the processor wraps its body in try/catch
Catches(fn) == fn \in {"PL", "PND", "GNI", "FEF"}

\* a getNodeInputs that pushed zero for a source that returned null
PushesZero(out, c) ==
  IF out.t = "null" THEN <<Num(0)>>
  ELSE IF out.t = "value" THEN <<Num(out.v)>>
  ELSE IF out.t = "exec" /\ c.sourceOutput = "execOut" THEN <<NullV>>
  ELSE IF out.t = "result" /\ c.sourceOutput = "result" THEN <<Num(out.v)>>
  ELSE <<>>

\* what getNodeInputs pushes for a source result
PushedValues(out, c) ==
  IF out.t = "null" THEN <<>>
  ELSE IF out.t = "value" THEN <<Num(out.v)>>
  ELSE IF out.t = "exec" /\ c.sourceOutput = "execOut" THEN <<NullV>>
  ELSE IF out.t = "result" /\ c.sourceOutput = "result" THEN <<Num(out.v)>>
  ELSE <<>>

NoCtx == [full |-> FALSE, isOnGround |-> FALSE, gravity |-> 0, inputState |-> InputStateUndef]

Frame(fn, node, ctx, pc) ==
  [fn |-> fn, node |-> node, ctx |-> ctx, pc |-> pc, k |-> 1, j |-> 1,
   ins |-> EmptyInputs, res |-> ResNull]

Ctl(op, fn, node, ctx, res, ins, why) ==
  [op |-> op, fn |-> fn, node |-> node, ctx |-> ctx, res |-> res, ins |-> ins, why |-> why]

CtlIdle == Ctl("idle", "-", NoNode, NoCtx, ResNull, EmptyInputs, "-")
CtlRun == Ctl("run", "-", NoNode, NoCtx, ResNull, EmptyInputs, "-")
CtlCall(fn, node, ctx) == Ctl("call", fn, node, ctx, ResNull, EmptyInputs, "-")
CtlRet(res, ins) == Ctl("ret", "-", NoNode, NoCtx, res, ins, "-")
CtlThrow(why) == Ctl("throw", "-", NoNode, NoCtx, ResNull, EmptyInputs, why)

Top == stack[Len(stack)]
Pop == SubSeq(stack, 1, Len(stack) - 1)
SetTop(f) == [stack EXCEPT ![Len(stack)] = f]

ZeroCount == [id \in Ids |-> 0]

\* what the host presents in a frame: the physics body and the input state
BodySamples ==
  { <<FALSE, FALSE, FALSE>>, <<TRUE, TRUE, FALSE>>, <<TRUE, FALSE, TRUE>>,
    <<TRUE, FALSE, FALSE>> }

InputSamples ==
  { <<InputStateUndef, FALSE, NoKeys>>,
    <<InputState(FALSE, FALSE, TRUE), FALSE, NoKeys>>,
    <<InputState(FALSE, TRUE, FALSE), TRUE, NoKeys>>,
    <<InputStateUndef, FALSE, [NoKeys EXCEPT !.ArrowUp = TRUE]>> }

\* processLogic up to the first processNodeDirectly call, the host presenting
\* one of the given bodies and inputs
Tick(bodies, inputs) ==
  /\ \E b \in bodies : \E inp \in inputs :
       LET pl == Player(b[1], b[2], b[3], inp[1], inp[2])
           ground == pl.touchingDown \/ pl.blockedDown
       IN  /\ player' = pl
           /\ keyStates' = inp[3]
           /\ actorAccess' = ProcessorAccess(pl)
           /\ nodeResultCache' = ClearedCache(nodeResultCache)
           /\ IF ~pl.hasBody
              THEN \* reading player.body.touching throws inside the try block
                   /\ isPlayerOnGround' = isPlayerOnGround
                   /\ stack' = <<Frame("PL", NoNode, NoCtx, "loop")>>
                   /\ ctl' = CtlThrow("type")
              ELSE /\ isPlayerOnGround' = ground
                   /\ IF Len(updateEntryPoints) = 0
                      THEN stack' = <<>> /\ ctl' = CtlIdle
                      ELSE /\ stack' = <<Frame("PL", NoNode, TickContext(pl, ground), "loop")>>
                           /\ ctl' = CtlCall("PND", updateEntryPoints[1], TickContext(pl, ground))
  /\ depth' = IF ctl'.op = "idle" THEN 0 ELSE 1
  /\ epoch' = 1 - epoch
  /\ startEntries' = Len(updateEntryPoints)
  /\ pndStarts' = ZeroCount
  /\ evalCount' = ZeroCount
  /\ calls' = <<>>
  /\ tickEntryPoints' = updateEntryPoints
  /\ UNCHANGED <<editorNodes, editorConns, edits, updateEntryPoints, rejected, axis,
                 blockedAttempts, motion,
                 persist, scene, flow>>

\* processLogic called by a host of its own, between frames
ProcessLogic ==
  /\ Idle /\ ~adapter.attached
  /\ Tick(BodySamples, InputSamples)
  /\ UNCHANGED <<adapter, editsAtTick>>

Unchanged0 == UNCHANGED <<editorNodes, editorConns, edits, updateEntryPoints,
                          isPlayerOnGround, player, keyStates, epoch, startEntries,
                          rejected, axis, adapter,
                 tickEntryPoints, editsAtTick, blockedAttempts, motion,
                 persist, scene, flow>>

Unchanged1 == Unchanged0 /\ UNCHANGED actorAccess

\* a call that finds the call stack exhausted raises RangeError in the caller
StackOverflow ==
  /\ ctl.op = "call" /\ depth >= StackLimit
  /\ ctl' = CtlThrow("range")
  /\ UNCHANGED <<stack, depth, nodeResultCache, pndStarts, evalCount, calls>>
  /\ Unchanged1

\* processNodeDirectly, from entry to the getNodeInputs call
CallPND ==
  /\ ctl.op = "call" /\ ctl.fn = "PND" /\ depth <= StackLimit /\ Len(stack) < MaxChain
  /\ IF CacheHas(nodeResultCache, ctl.node.id)
     THEN /\ ctl' = CtlRet(nodeResultCache[ctl.node.id].res, EmptyInputs)
          /\ UNCHANGED <<stack, pndStarts>>
     ELSE /\ stack' = Append(stack, Frame("PND", ctl.node, ctl.ctx, "inputs"))
          /\ pndStarts' = [pndStarts EXCEPT ![ctl.node.id] = @ + 1]
          /\ ctl' = CtlCall("GNI", ctl.node, ctl.ctx)
  /\ UNCHANGED <<nodeResultCache, evalCount, calls>>
  /\ Unchanged1
  /\ depth' = IF CacheHas(nodeResultCache, ctl.node.id) THEN depth ELSE depth + 1

\* getNodeInputs: entry
CallGNI ==
  /\ ctl.op = "call" /\ ctl.fn = "GNI" /\ depth <= StackLimit /\ Len(stack) < MaxChain
  /\ stack' = Append(stack, Frame("GNI", ctl.node, ctl.ctx, "loop"))
  /\ ctl' = CtlRun
  /\ UNCHANGED <<nodeResultCache, pndStarts, evalCount, calls>>
  /\ Unchanged1
  /\ depth' = depth + 1

\* getNodeInputs: one step of the loops over the inputs and their connections
StepGNI ==
  /\ ctl.op = "run" /\ Len(stack) > 0 /\ Top.fn = "GNI"
  /\ LET f == Top
         names == NodeInputs(f.node.kind)
     IN  IF f.k > Len(names)
         THEN stack' = Pop /\ ctl' = CtlRet(ResNull, f.ins)
         ELSE LET name == names[f.k]
                  cs == ConnectionsToInput(editorConns, f.node.id, name)
              IN  IF Len(cs) = 0
                  THEN stack' = SetTop([f EXCEPT !.k = @ + 1, !.j = 1]) /\ ctl' = ctl
                  ELSE IF name \in {"execIn", "exec"}
                  THEN /\ stack' = SetTop([f EXCEPT !.k = @ + 1, !.j = 1,
                                                    !.ins[name] = <<Num(1)>>])
                       /\ ctl' = ctl
                  ELSE IF f.j > Len(cs)
                  THEN stack' = SetTop([f EXCEPT !.k = @ + 1, !.j = 1]) /\ ctl' = ctl
                  ELSE IF GetNode(editorNodes, cs[f.j].source) # NoNode
                  THEN /\ stack' = stack
                       /\ ctl' = CtlCall("PND", GetNode(editorNodes, cs[f.j].source),
                                         PullContext(player, isPlayerOnGround))
                  ELSE stack' = SetTop([f EXCEPT !.j = @ + 1]) /\ ctl' = ctl
  /\ UNCHANGED <<nodeResultCache, pndStarts, evalCount, calls>>
  /\ Unchanged1
  /\ depth' = depth

\* getNodeInputs: the awaited processNodeDirectly of a source returned
ReturnGNI ==
  /\ ctl.op = "ret" /\ Len(stack) > 0 /\ Top.fn = "GNI" /\ ~adapter.inUpdate
  /\ LET f == Top
         name == NodeInputs(f.node.kind)[f.k]
         c == ConnectionsToInput(editorConns, f.node.id, name)[f.j]
     IN  stack' = SetTop([f EXCEPT !.j = @ + 1,
                                   !.ins[name] = @ \o PushedValues(ctl.res, c)])
  /\ ctl' = CtlRun
  /\ UNCHANGED <<nodeResultCache, pndStarts, evalCount, calls>>
  /\ Unchanged1
  /\ depth' = 1

\* processNodeDirectly after getNodeInputs: data(), cache, execution flow;
\* and after followExecutionFlow: return the result
ReturnPND ==
  /\ ctl.op = "ret" /\ Len(stack) > 0 /\ Top.fn = "PND" /\ ~adapter.inUpdate
  /\ LET f == Top
         ctx == IF IsTransformNode(f.node.kind)
                THEN [f.ctx EXCEPT !.isOnGround = isPlayerOnGround] ELSE f.ctx
     IN  IF f.pc = "follow"
         THEN /\ stack' = Pop /\ ctl' = CtlRet(f.res, EmptyInputs)
              /\ UNCHANGED <<nodeResultCache, evalCount, calls, actorAccess>>
         ELSE IF DataThrows(f.node)
         THEN /\ stack' = stack /\ ctl' = CtlThrow("data")
              /\ evalCount' = [evalCount EXCEPT ![f.node.id] = @ + 1]
              /\ UNCHANGED <<nodeResultCache, calls, actorAccess>>
         ELSE LET res == NodeData(f.node, ctl.ins, ctx, player, keyStates)
              IN  /\ nodeResultCache' = CacheSet(nodeResultCache, f.node.id, res, epoch)
                  /\ evalCount' = [evalCount EXCEPT ![f.node.id] = @ + 1]
                  /\ calls' = calls \o NodeCalls(f.node, ctl.ins, ctx, player)
                  /\ actorAccess' = actorAccess \cup NodeAccess(f.node, ctl.ins, ctx, player)
                  /\ IF IsOnUpdateNode(f.node.kind)
                     THEN /\ stack' = SetTop([f EXCEPT !.pc = "follow", !.res = res])
                          /\ ctl' = CtlCall("FEF", f.node, f.ctx)
                     ELSE /\ stack' = Pop /\ ctl' = CtlRet(res, EmptyInputs)
  /\ UNCHANGED pndStarts
  /\ Unchanged0
  /\ depth' = 1

\* followExecutionFlow: entry
CallFEF ==
  /\ ctl.op = "call" /\ ctl.fn = "FEF" /\ depth <= StackLimit /\ Len(stack) < MaxChain
  /\ stack' = Append(stack, Frame("FEF", ctl.node, ctl.ctx, "next"))
  /\ ctl' = CtlRun
  /\ UNCHANGED <<nodeResultCache, pndStarts, evalCount, calls>>
  /\ Unchanged1
  /\ depth' = depth + 1

\* followExecutionFlow: next connection from the output
StepFEF ==
  /\ ctl.op = "run" /\ Len(stack) > 0 /\ Top.fn = "FEF"
  /\ LET f == Top
         cs == ConnectionsFromOutput(editorConns, f.node.id, "execOut")
     IN  IF f.k > Len(cs)
         THEN stack' = Pop /\ ctl' = CtlRet(ResNull, EmptyInputs)
         ELSE IF GetNode(editorNodes, cs[f.k].target) # NoNode
         THEN /\ stack' = SetTop([f EXCEPT !.pc = "node"])
              /\ ctl' = CtlCall("PND", GetNode(editorNodes, cs[f.k].target), f.ctx)
         ELSE stack' = SetTop([f EXCEPT !.k = @ + 1]) /\ ctl' = ctl
  /\ UNCHANGED <<nodeResultCache, pndStarts, evalCount, calls>>
  /\ Unchanged1
  /\ depth' = depth

\* followExecutionFlow: the target was processed; continue through its execOut
ReturnFEF ==
  /\ ctl.op = "ret" /\ Len(stack) > 0 /\ Top.fn = "FEF" /\ ~adapter.inUpdate
  /\ LET f == Top
         cs == ConnectionsFromOutput(editorConns, f.node.id, "execOut")
         targetNode == GetNode(editorNodes, cs[f.k].target)
     IN  IF f.pc = "node" /\ HasExecOut(targetNode.kind)
         THEN /\ stack' = SetTop([f EXCEPT !.pc = "sub"])
              /\ ctl' = CtlCall("FEF", targetNode, f.ctx)
         ELSE /\ stack' = SetTop([f EXCEPT !.k = @ + 1, !.pc = "next"])
              /\ ctl' = CtlRun
  /\ UNCHANGED <<nodeResultCache, pndStarts, evalCount, calls>>
  /\ Unchanged1
  /\ depth' = 1

\* processLogic: the awaited processNodeDirectly of an entry point returned
ReturnPL ==
  /\ ctl.op = "ret" /\ Len(stack) > 0 /\ Top.fn = "PL" /\ ~adapter.inUpdate
  /\ LET f == Top
     IN  IF f.k + 1 <= Len(tickEntryPoints)
         THEN /\ stack' = SetTop([f EXCEPT !.k = @ + 1])
              /\ ctl' = CtlCall("PND", tickEntryPoints[f.k + 1], f.ctx)
         ELSE stack' = <<>> /\ ctl' = CtlIdle
  /\ UNCHANGED <<nodeResultCache, pndStarts, evalCount, calls>>
  /\ Unchanged1
  /\ depth' = IF Top.k + 1 <= Len(tickEntryPoints) THEN 1 ELSE 0

\* an exception reaches the innermost awaiting function
Unwind ==
  /\ ctl.op = "throw" /\ Len(stack) > 0
  /\ IF Catches(Top.fn)
     THEN /\ rejected' = rejected
          /\ \/ /\ Top.fn = "PND"
                /\ stack' = Pop /\ ctl' = CtlRet(ResNull, EmptyInputs)
             \/ /\ Top.fn = "GNI"
                \* catch logs and returns {}; with the stack exhausted the log
                \* call may raise again, and the promise is rejected
                /\ \/ stack' = Pop /\ ctl' = CtlRet(ResNull, EmptyInputs)
                   \/ ctl.why = "range" /\ stack' = Pop /\ ctl' = ctl
             \/ /\ Top.fn = "FEF"
                /\ stack' = Pop /\ ctl' = CtlRet(ResNull, EmptyInputs)
             \/ /\ Top.fn = "PL"
                /\ stack' = <<>> /\ ctl' = CtlIdle
     ELSE /\ stack' = Pop
          /\ IF Len(stack) = 1
             THEN ctl' = CtlIdle /\ rejected' = TRUE
             ELSE ctl' = ctl /\ rejected' = rejected
  /\ UNCHANGED <<nodeResultCache, pndStarts, evalCount, calls>>
  /\ UNCHANGED <<editorNodes, editorConns, edits, updateEntryPoints,
                 isPlayerOnGround, player, keyStates, epoch, startEntries, axis, adapter,
                 tickEntryPoints, editsAtTick, blockedAttempts, motion,
                 persist, scene, actorAccess, flow>>
  /\ depth' = IF Top.fn = "PL" \/ (~Catches(Top.fn) /\ Len(stack) = 1) THEN 0 ELSE depth

onGraphChanged ==
  /\ Idle /\ ~adapter.attached
  /\ updateEntryPoints' = findEntryPoints(editorNodes)
  /\ UNCHANGED <<editorNodes, editorConns, edits, nodeResultCache, isPlayerOnGround,
                 player, keyStates, stack, depth, ctl, epoch, startEntries, pndStarts,
                 evalCount, calls, rejected, axis, adapter,
                 tickEntryPoints, editsAtTick, blockedAttempts, motion,
                 persist, scene, actorAccess, flow>>

\* ------------------------------------------------ the adapter (Player.js)
\* the scene's test when the preview starts: any connection at all
hasConnections(nodes, conns) == Len(conns) > 0

\* Player.checkNodeConnections: some connection targets a TransformNode
checkNodeConnections(nodes, conns) ==
  \E i \in 1..Len(conns) : GetNode(nodes, conns[i].target).kind = "Transform"

\* what the host presents while the adapter drives the processor
AdapterBodySamples == { <<TRUE, TRUE, FALSE>> }
AdapterInputSamples == { <<InputStateUndef, FALSE, NoKeys>> }

CallbackAnyTime == TRUE

\* the scene's update callback, which calls Player.update once, is a task of
\* its own: it starts only when the continuations left by earlier tasks have
\* all run
CallbackMayStart == ctl.op = "idle"

\* Player.update up to the point where the processLogic call returns its
\* promise: processLogic is called without await, so its body runs up to its
\* first suspension inside the callback and the rest after the callback
Update ==
  /\ CallbackMayStart /\ adapter.attached /\ ~adapter.inUpdate
  /\ IF adapter.useNodeLogic
     THEN Tick(AdapterBodySamples, AdapterInputSamples) /\ editsAtTick' = edits
     ELSE UNCHANGED <<editorNodes, editorConns, edits, updateEntryPoints,
                      nodeResultCache, isPlayerOnGround, player, keyStates, stack,
                      depth, ctl, epoch, startEntries, pndStarts, evalCount, calls,
                      rejected, axis, tickEntryPoints, editsAtTick, blockedAttempts,
                      motion,
                 persist, scene, actorAccess, flow>>
  /\ adapter' = [adapter EXCEPT !.inUpdate = TRUE]

\* Player.update from the change detection to its return: the processLogic
\* call has returned (finished, or suspended at its first await)
UpdateDetect ==
  /\ adapter.inUpdate /\ ctl.op \in {"idle", "ret"}
  /\ LET currentNodeCount == Len(editorNodes)
         currentConnectionCount == Len(editorConns)
     IN  IF \/ currentNodeCount # adapter.lastNodeCount
            \/ currentConnectionCount # adapter.lastConnectionCount
         THEN \* onEditorChanged: onGraphChanged, checkNodeConnections
              /\ updateEntryPoints' = findEntryPoints(editorNodes)
              /\ adapter' = [adapter EXCEPT
                               !.inUpdate = FALSE,
                               !.useNodeLogic = checkNodeConnections(editorNodes, editorConns),
                               !.lastNodeCount = currentNodeCount,
                               !.lastConnectionCount = currentConnectionCount,
                               !.handledAt = edits]
         ELSE /\ updateEntryPoints' = updateEntryPoints
              /\ adapter' = [adapter EXCEPT !.inUpdate = FALSE]
  /\ UNCHANGED <<editorNodes, editorConns, edits, nodeResultCache, isPlayerOnGround,
                 player, keyStates, stack, depth, ctl, epoch, startEntries, pndStarts,
                 evalCount, calls, rejected, axis, tickEntryPoints, editsAtTick,
                 blockedAttempts, motion,
                 persist, scene, actorAccess, flow>>

\* ------------------------------------------------------- initial states
\* script states the editor is restored from (createEditor(savedState))
SavedStates ==
  { \* nothing placed
    [nodes |-> <<>>, conns |-> <<>>],
    \* jump / fast fall: OnUpdate -> Transform, VAxis * Float -> y
    [nodes |-> <<Node(1, "OnUpdate", 0), Node(2, "VAxis", 0), Node(3, "Float", 4),
                 Node(4, "Multiply", 0), Node(5, "Transform", 0)>>,
     conns |-> <<Conn(1, "execOut", 5, "execIn"), Conn(2, "value", 4, "a"),
                 Conn(3, "value", 4, "b"), Conn(4, "result", 5, "y")>>],
    \* one Float read through two inputs
    [nodes |-> <<Node(1, "OnUpdate", 0), Node(2, "Float", 4), Node(3, "Transform", 0)>>,
     conns |-> <<Conn(1, "execOut", 3, "execIn"), Conn(2, "value", 3, "x"),
                 Conn(2, "value", 3, "y")>>],
    [nodes |-> <<Node(1, "OnUpdate", 0), Node(2, "Float", -300), Node(3, "Transform", 0),
                 Node(4, "HAxis", 0)>>,
     conns |-> <<Conn(1, "execOut", 3, "execIn"), Conn(4, "value", 3, "x"),
                 Conn(2, "value", 3, "y")>>],
    \* a Multiply whose output feeds its own input
    [nodes |-> <<Node(1, "OnUpdate", 0), Node(2, "Multiply", 0), Node(3, "Transform", 0)>>,
     conns |-> <<Conn(1, "execOut", 3, "execIn"), Conn(2, "result", 3, "x"),
                 Conn(2, "result", 2, "a")>>],
    \* one entry point, three exec targets, the middle one throws
    [nodes |-> <<Node(1, "OnUpdate", 0), Node(2, "Transform", 0), Node(3, "Faulty", 0),
                 Node(4, "Transform", 0)>>,
     conns |-> <<Conn(1, "execOut", 2, "execIn"), Conn(1, "execOut", 3, "execIn"),
                 Conn(1, "execOut", 4, "execIn")>>],
    \* two entry points, the first branch pulls a throwing source
    [nodes |-> <<Node(1, "OnUpdate", 0), Node(2, "OnUpdate", 0), Node(3, "Transform", 0),
                 Node(4, "Transform", 0), Node(5, "Faulty", 0)>>,
     conns |-> <<Conn(1, "execOut", 3, "execIn"), Conn(5, "value", 3, "x"),
                 Conn(2, "execOut", 4, "execIn")>>],
    \* no entry point
    [nodes |-> <<Node(1, "Float", -300), Node(2, "Transform", 0)>>,
     conns |-> <<Conn(1, "value", 2, "x")>>],
    \* exec output wired to a number input, exec input left open
    [nodes |-> <<Node(1, "OnUpdate", 0), Node(2, "Transform", 0), Node(3, "Float", -300)>>,
     conns |-> <<Conn(1, "execOut", 2, "x"), Conn(3, "value", 2, "y")>>] }

AxisUnset == [done |-> FALSE, h |-> 0, v |-> 0, touchV |-> 0]

\* no Player object drives the processor; handledAt: the value of edits
\* when onEditorChanged ran last, -1 before it has run
NoAdapter ==
  [attached |-> FALSE, useNodeLogic |-> FALSE, lastNodeCount |-> 0,
   lastConnectionCount |-> 0, inUpdate |-> FALSE, handledAt |-> -1]

FlowUnset == [done |-> FALSE, variant |-> "-", targets |-> <<>>, processed |-> <<>>]

\* nothing saved, no editor rebuilt
NoPersist == [phase |-> "none"]

\* no level scene
NoScene == [on |-> FALSE]

MotionUnset == [done |-> FALSE, variant |-> "-", exec |-> FALSE, x |-> <<>>, y |-> <<>>,
                ground |-> FALSE, vy |-> 0, calls |-> <<>>]

\* state after new PlayerLogicProcessor(editor, player): findEntryPoints ran,
\* processReadyNodes found no OnReady node and processed nothing
Init ==
  /\ \E g \in SavedStates :
       /\ editorNodes = g.nodes
       /\ editorConns = g.conns
       /\ updateEntryPoints = findEntryPoints(g.nodes)
  /\ edits = 0
  /\ nodeResultCache = [id \in Ids |-> NoEntry]
  /\ isPlayerOnGround = TRUE
  /\ player = Player(TRUE, FALSE, FALSE, InputStateUndef, FALSE)
  /\ keyStates = NoKeys
  /\ stack = <<>>
  /\ depth = 0
  /\ ctl = CtlIdle
  /\ epoch = 0
  /\ startEntries = -1
  /\ pndStarts = ZeroCount
  /\ evalCount = ZeroCount
  /\ calls = <<>>
  /\ rejected = FALSE
  /\ axis = AxisUnset
  /\ adapter = NoAdapter
  /\ tickEntryPoints = <<>>
  /\ editsAtTick = -1
  /\ blockedAttempts = 0
  /\ motion = MotionUnset
  /\ persist = NoPersist
  /\ scene = NoScene
  /\ actorAccess = {}
  /\ flow = FlowUnset

Next ==
  \/ AddNode
  \/ RemoveNode
  \/ AddConnection
  \/ RemoveConnection
  \/ onGraphChanged
  \/ ProcessLogic
  \/ StackOverflow
  \/ CallPND
  \/ CallGNI
  \/ StepGNI
  \/ ReturnGNI
  \/ ReturnPND
  \/ CallFEF
  \/ StepFEF
  \/ ReturnFEF
  \/ ReturnPL
  \/ Unwind

Spec == Init /\ [][Next]_vars

\* the continuations of a processLogic call: the engine runs each one that
\* is ready, so a frame in progress always takes its next step
EngineStep ==
  \/ StackOverflow \/ CallPND \/ CallGNI \/ StepGNI \/ ReturnGNI \/ ReturnPND
  \/ CallFEF \/ StepFEF \/ ReturnFEF \/ ReturnPL \/ Unwind

SpecLive == Init /\ [][Next]_vars /\ WF_vars(EngineStep)


\* ------------------------------------- the processor driven by the adapter
\* state after the scene entered preview mode: setReteEngine built the
\* processor and stored the counts, the scene then set useNodeLogic
AdapterStates ==
  { \* no entry point
    [nodes |-> <<Node(1, "Float", -300), Node(2, "Transform", 0)>>,
     conns |-> <<Conn(1, "value", 2, "x")>>],
    \* one entry point driving a Transform
    [nodes |-> <<Node(1, "OnUpdate", 0), Node(2, "Float", -300), Node(3, "Transform", 0)>>,
     conns |-> <<Conn(1, "execOut", 3, "execIn"), Conn(2, "value", 3, "y")>>],
    \* a Multiply whose output feeds its own input
    [nodes |-> <<Node(1, "OnUpdate", 0), Node(2, "Multiply", 0), Node(3, "Transform", 0)>>,
     conns |-> <<Conn(1, "execOut", 3, "execIn"), Conn(2, "result", 3, "x"),
                 Conn(2, "result", 2, "a")>>] }

InitAdapter ==
  /\ \E g \in AdapterStates :
       /\ editorNodes = g.nodes
       /\ editorConns = g.conns
       /\ updateEntryPoints = findEntryPoints(g.nodes)
       /\ adapter = [attached |-> TRUE, useNodeLogic |-> Len(g.conns) > 0,
                     lastNodeCount |-> Len(g.nodes),
                     lastConnectionCount |-> Len(g.conns), inUpdate |-> FALSE,
                     handledAt |-> -1]
  /\ edits = 0
  /\ nodeResultCache = [id \in Ids |-> NoEntry]
  /\ isPlayerOnGround = TRUE
  /\ player = Player(TRUE, FALSE, FALSE, InputStateUndef, FALSE)
  /\ keyStates = NoKeys
  /\ stack = <<>>
  /\ depth = 0
  /\ ctl = CtlIdle
  /\ epoch = 0
  /\ startEntries = -1
  /\ pndStarts = ZeroCount
  /\ evalCount = ZeroCount
  /\ calls = <<>>
  /\ rejected = FALSE
  /\ axis = AxisUnset
  /\ tickEntryPoints = <<>>
  /\ editsAtTick = -1
  /\ blockedAttempts = 0
  /\ motion = MotionUnset
  /\ persist = NoPersist
  /\ scene = NoScene
  /\ actorAccess = {}
  /\ flow = FlowUnset

NextAdapter ==
  \/ AddNode
  \/ RemoveNode
  \/ AddConnection
  \/ RemoveConnection
  \/ Update
  \/ UpdateDetect
  \/ StackOverflow
  \/ CallPND
  \/ CallGNI
  \/ StepGNI
  \/ ReturnGNI
  \/ ReturnPND
  \/ CallFEF
  \/ StepFEF
  \/ ReturnFEF
  \/ ReturnPL
  \/ Unwind

SpecAdapter == InitAdapter /\ [][NextAdapter]_vars

\* ----------------------------------------------- axis nodes on their own
BOOL == {TRUE, FALSE}

InitAxis ==
  /\ editorNodes = <<>> /\ editorConns = <<>> /\ updateEntryPoints = <<>>
  /\ edits = 0
  /\ nodeResultCache = [id \in Ids |-> NoEntry]
  /\ isPlayerOnGround = TRUE
  /\ \E st \in {InputStateUndef} \cup {InputState(l, r, j) : l, r, j \in BOOL} :
       \E d \in BOOL : player = Player(TRUE, FALSE, FALSE, st, d)
  /\ keyStates \in [ArrowLeft : BOOL, ArrowRight : BOOL, ArrowUp : BOOL, ArrowDown : BOOL]
  /\ stack = <<>>
  /\ depth = 0
  /\ ctl = CtlIdle
  /\ epoch = 0
  /\ startEntries = -1
  /\ pndStarts = ZeroCount
  /\ evalCount = ZeroCount
  /\ calls = <<>>
  /\ rejected = FALSE
  /\ axis = AxisUnset
  /\ adapter = NoAdapter
  /\ tickEntryPoints = <<>>
  /\ editsAtTick = -1
  /\ blockedAttempts = 0
  /\ motion = MotionUnset
  /\ persist = NoPersist
  /\ scene = NoScene
  /\ actorAccess = {}
  /\ flow = FlowUnset

\* getAxisValue of both axis nodes with the context processLogic builds
EvalAxis ==
  /\ ~axis.done
  /\ LET ctx == TickContext(player, isPlayerOnGround)
     IN  axis' = [done |-> TRUE,
                  h |-> GetHorizontalAxisValue(keyStates, ctx),
                  v |-> GetVerticalAxisValue(keyStates, ctx, player),
                  touchV |-> TouchValueV(ctx, player)]
  /\ UNCHANGED <<editorNodes, editorConns, edits, updateEntryPoints, nodeResultCache,
                 isPlayerOnGround, player, keyStates, stack, depth, ctl, epoch,
                 startEntries, pndStarts, evalCount, calls, rejected, adapter,
                 tickEntryPoints, editsAtTick, blockedAttempts, motion,
                 persist, scene, actorAccess, flow>>

NextAxis == EvalAxis

SpecAxis == InitAxis /\ [][NextAxis]_vars

\* -------------------------------------------- Transform nodes on their own
\* both copies of TransformNode in the repository
TransformVariants == {"rete", "rete-ts"}

\* value lists handed to the x and y inputs, and current vertical velocities
XLists == { <<>>, <<0>>, <<5>>, <<-300, 4>> }
YLists == { <<>>, <<0>>, <<4>>, <<-300>> }
VelocityYSamples == {0, 150}

InitTransform ==
  /\ editorNodes = <<>> /\ editorConns = <<>> /\ updateEntryPoints = <<>>
  /\ edits = 0
  /\ nodeResultCache = [id \in Ids |-> NoEntry]
  /\ isPlayerOnGround = TRUE
  /\ player = Player(TRUE, FALSE, FALSE, InputStateUndef, FALSE)
  /\ keyStates = NoKeys
  /\ stack = <<>>
  /\ depth = 0
  /\ ctl = CtlIdle
  /\ epoch = 0
  /\ startEntries = -1
  /\ pndStarts = ZeroCount
  /\ evalCount = ZeroCount
  /\ calls = <<>>
  /\ rejected = FALSE
  /\ axis = AxisUnset
  /\ adapter = NoAdapter
  /\ tickEntryPoints = <<>>
  /\ editsAtTick = -1
  /\ blockedAttempts = 0
  /\ \E variant \in TransformVariants : \E exec \in BOOL : \E x \in XLists :
       \E y \in YLists : \E ground \in BOOL : \E vy \in VelocityYSamples :
         motion = [done |-> FALSE, variant |-> variant, exec |-> exec, x |-> x,
                   y |-> y, ground |-> ground, vy |-> vy, calls |-> <<>>]
  /\ persist = NoPersist
  /\ scene = NoScene
  /\ actorAccess = {}
  /\ flow = FlowUnset

\* the inputs record getNodeInputs hands to data() for the drawn value lists
MotionInputs(m) ==
  LET execName == IF m.variant = "rete" THEN "execIn" ELSE "exec"
      Nums(l) == [i \in 1..Len(l) |-> Num(l[i])]
  IN  [EmptyInputs EXCEPT ![execName] = IF m.exec THEN <<NullV>> ELSE <<>>,
                          !["x"] = Nums(m.x), !["y"] = Nums(m.y)]

\* one data() call of the drawn TransformNode copy, the processor having set
\* context.isOnGround
EvalTransform ==
  /\ ~motion.done
  /\ LET ctx == [TickContext(player, motion.ground) EXCEPT !.isOnGround = motion.ground]
         ins == MotionInputs(motion)
     IN  motion' = [motion EXCEPT
                      !.done = TRUE,
                      !.calls = IF motion.variant = "rete"
                                THEN TransformCalls(1, ins, ctx, player)
                                ELSE TransformCallsTs(1, ins, ctx, player, motion.vy)]
  /\ UNCHANGED <<editorNodes, editorConns, edits, updateEntryPoints, nodeResultCache,
                 isPlayerOnGround, player, keyStates, stack, depth, ctl, epoch,
                 startEntries, pndStarts, evalCount, calls, rejected, axis, adapter,
                 tickEntryPoints, editsAtTick, blockedAttempts,
                 persist, scene, actorAccess, flow>>

NextTransform == EvalTransform

SpecTransform == InitTransform /\ [][NextTransform]_vars

\* ------------------------------------- saving and rebuilding the editor
\* value of an InputControl: the FloatNode constructor passes no initial
\* value, so an untouched control holds undefined
Unset == [set |-> FALSE, n |-> 0]
Value(n) == [set |-> TRUE, n |-> n]

\* a node of the script editor with its 'value' control (Unset where the
\* kind has no control)
ScriptNode(id, kind, control) == [id |-> id, kind |-> kind, control |-> control]

ScriptKinds == Kinds \ {"Faulty"}

\* NodeType enum member and class name of a node kind
NodeTypeOf(kind) ==
  CASE kind = "Float"     -> "FLOAT"
    [] kind = "HAxis"     -> "GET_HORIZONTAL_AXIS"
    [] kind = "VAxis"     -> "GET_VERTICAL_AXIS"
    [] kind = "Multiply"  -> "MULTIPLY"
    [] kind = "OnUpdate"  -> "ON_UPDATE"
    [] kind = "Transform" -> "TRANSFORM"

ClassName(kind) ==
  CASE kind = "Float"     -> "FloatNode"
    [] kind = "HAxis"     -> "GetHorizontalAxisNode"
    [] kind = "VAxis"     -> "GetVerticalAxisNode"
    [] kind = "Multiply"  -> "MultiplyNode"
    [] kind = "OnUpdate"  -> "OnUpdateNode"
    [] kind = "Transform" -> "TransformNode"

\* the switch on nodeState.data.nodeType; "none": the default branch
KindOfType(nodeType) ==
  IF \E k \in ScriptKinds : NodeTypeOf(k) = nodeType
  THEN CHOOSE k \in ScriptKinds : NodeTypeOf(k) = nodeType
  ELSE "none"

\* the fallback switch on nodeState.name and, after it, the prefix map
\* (first matching entry in insertion order), for the names drawn here
SampleNames == {"MultiplyNode", "Judeti", "fx", "zzz"}

KindOfName(name) ==
  CASE name = "Judeti" -> "Transform"    \* no case label, prefix 'j'
    [] name = "fx"     -> "Float"        \* no case label, prefix 'f'
    [] name = "zzz"    -> "none"         \* no case label, no prefix
    [] OTHER -> IF \E k \in ScriptKinds : ClassName(k) = name
                THEN CHOOSE k \in ScriptKinds : ClassName(k) = name
                ELSE "none"

\* node.serialize(): nodeType, and for a FloatNode the control's value
serialize(node) ==
  [nodeType |-> NodeTypeOf(node.kind),
   hasValue |-> node.kind = "Float",
   value    |-> IF node.kind = "Float" THEN node.control ELSE Unset]

\* JSON.stringify / JSON.parse of a node's data: a property holding
\* undefined is left out
JsonData(data) ==
  IF data.hasValue /\ data.value.set THEN data
  ELSE [data EXCEPT !.hasValue = FALSE, !.value = Unset]

\* a node of the state object of the auto-save interval, after setCookie
\* and getCookie
SavedNode(node) ==
  [id |-> node.id, name |-> ClassName(node.kind), data |-> JsonData(serialize(node))]

AutoSaveState(nodes, conns) ==
  [nodes |-> [i \in 1..Len(nodes) |-> SavedNode(nodes[i])], connections |-> conns]

\* createEditor, node loop: the editor's nodes after the saved node states
\* from index i on; threw: editor.addNode found the id already present
RECURSIVE RestoreNodes(_, _, _)
RestoreNodes(states, i, nodes) ==
  IF i > Len(states) THEN [nodes |-> nodes, threw |-> FALSE]
  ELSE LET nodeState == states[i]
           savedValue == IF nodeState.data.hasValue /\ nodeState.data.value.set
                         THEN nodeState.data.value.n ELSE 0
           kind == IF nodeState.data.nodeType # ""
                   THEN KindOfType(nodeState.data.nodeType)
                   ELSE KindOfName(nodeState.name)
       IN  IF kind = "none" THEN RestoreNodes(states, i + 1, nodes)
           ELSE IF \E k \in 1..Len(nodes) : nodes[k].id = nodeState.id
           THEN [nodes |-> nodes, threw |-> TRUE]
           ELSE RestoreNodes(states, i + 1,
                  Append(nodes, ScriptNode(nodeState.id, kind,
                           IF kind = "Float" THEN Value(savedValue) ELSE Unset)))

\* createEditor, connection loop
RECURSIVE RestoreConnections(_, _, _, _)
RestoreConnections(connStates, i, nodes, conns) ==
  IF i > Len(connStates) THEN conns
  ELSE LET connState == connStates[i]
           hasSource == \E k \in 1..Len(nodes) : nodes[k].id = connState.source
           hasTarget == \E k \in 1..Len(nodes) : nodes[k].id = connState.target
           sourceNode == GetNode(nodes, connState.source)
           targetNode == GetNode(nodes, connState.target)
           skip == \/ ~hasSource \/ ~hasTarget
                   \/ connState.sourceOutput \notin Range(NodeOutputs(sourceNode.kind))
                   \/ connState.targetInput \notin Range(NodeInputs(targetNode.kind))
                   \/ ~ConnectionAllowed(nodes, connState)
       IN  RestoreConnections(connStates, i + 1, nodes,
                              IF skip THEN conns ELSE Append(conns, connState))

\* a createEditor that added every saved connection without looking up its
\* nodes and sockets
createEditorUnchecked(savedState) ==
  LET rn == RestoreNodes(savedState.nodes, 1, <<>>)
  IN  [nodes |-> rn.nodes, threw |-> rn.threw,
       conns |-> IF rn.threw THEN <<>> ELSE savedState.connections]

\* createEditor(container, savedState), restore branch: with no saved node
\* the default nodes are made first and removed again
createEditor(savedState) ==
  LET rn == RestoreNodes(savedState.nodes, 1, <<>>)
  IN  [nodes |-> rn.nodes, threw |-> rn.threw,
       conns |-> IF rn.threw THEN <<>>
                 ELSE RestoreConnections(savedState.connections, 1, rn.nodes, <<>>)]

\* graphs the live editor holds: unique ids, connections between sockets
\* that exist, let in by the validation pipe
MaxScriptNodes == 2
MaxScriptConns == 2

ControlsOf(kind) == IF kind = "Float" THEN {Unset, Value(-300), Value(4)} ELSE {Unset}

ScriptNodeChoices(id) ==
  { ScriptNode(id, k, c) : k \in ScriptKinds, c \in {Unset, Value(-300), Value(4)} }
  \cap { nd \in [id : {id}, kind : ScriptKinds, control : {Unset, Value(-300), Value(4)}] :
           nd.control \in ControlsOf(nd.kind) }

ScriptNodeLists ==
  UNION { { f \in [1..n -> UNION { ScriptNodeChoices(id) : id \in 1..n }] :
              \A i \in 1..n : f[i].id = i } : n \in 1..MaxScriptNodes }

WiresOf(nodes) ==
  { c \in { Conn(nodes[i].id, so, nodes[j].id, ti) :
              i \in 1..Len(nodes), j \in 1..Len(nodes),
              so \in {"execOut", "value", "result"}, ti \in InputNames } :
      /\ c.sourceOutput \in Range(NodeOutputs(GetNode(nodes, c.source).kind))
      /\ c.targetInput \in Range(NodeInputs(GetNode(nodes, c.target).kind))
      /\ ConnectionAllowed(nodes, c) }

SeqsUpTo(S, n) == UNION { [1..m -> S] : m \in 0..n }

\* saved states as storage may hold them: ids that repeat, unknown or
\* missing nodeType, names of any kind, connections naming nodes and sockets
\* that may not exist
MaxLoadedConns == 1

LoadedNodes ==
  { [id |-> id, name |-> tn[2],
     data |-> [nodeType |-> tn[1], hasValue |-> v.set, value |-> v]] :
      id \in 1..MaxScriptNodes,
      tn \in { <<"FLOAT", "FloatNode">>, <<"TRANSFORM", "TransformNode">>,
               <<"ON_UPDATE", "OnUpdateNode">>, <<"BOGUS", "FloatNode">> }
             \cup { <<"", n>> : n \in SampleNames },
      v \in {Unset, Value(4)} }

LoadedConns ==
  { Conn(s, so, t, ti) : s \in {1, 3}, t \in {2, 3},
                         so \in {"execOut", "value", "nope"}, ti \in {"execIn", "x"} }

NoState == [nodes |-> <<>>, connections |-> <<>>]
NoEditor == [nodes |-> <<>>, conns |-> <<>>, threw |-> FALSE]

InitPersist ==
  /\ editorNodes = <<>> /\ editorConns = <<>> /\ updateEntryPoints = <<>>
  /\ edits = 0
  /\ nodeResultCache = [id \in Ids |-> NoEntry]
  /\ isPlayerOnGround = TRUE
  /\ player = Player(TRUE, FALSE, FALSE, InputStateUndef, FALSE)
  /\ keyStates = NoKeys
  /\ stack = <<>>
  /\ depth = 0
  /\ ctl = CtlIdle
  /\ epoch = 0
  /\ startEntries = -1
  /\ pndStarts = ZeroCount
  /\ evalCount = ZeroCount
  /\ calls = <<>>
  /\ rejected = FALSE
  /\ axis = AxisUnset
  /\ adapter = NoAdapter
  /\ tickEntryPoints = <<>>
  /\ editsAtTick = -1
  /\ blockedAttempts = 0
  /\ motion = MotionUnset
  /\ scene = NoScene
  /\ actorAccess = {}
  /\ flow = FlowUnset
  /\ \/ \E nodes \in ScriptNodeLists : \E conns \in SeqsUpTo(WiresOf(nodes), MaxScriptConns) :
          persist = [phase |-> "live", nodes |-> nodes, conns |-> conns,
                     saved |-> NoState, rebuilt |-> NoEditor]
     \/ \E ns \in SeqsUpTo(LoadedNodes, MaxScriptNodes) :
          \E cs \in SeqsUpTo(LoadedConns, MaxLoadedConns) :
            persist = [phase |-> "loaded", nodes |-> <<>>, conns |-> <<>>,
                       saved |-> [nodes |-> ns, connections |-> cs],
                       rebuilt |-> NoEditor]

UnchangedEngine ==
  UNCHANGED <<editorNodes, editorConns, edits, updateEntryPoints, nodeResultCache,
              isPlayerOnGround, player, keyStates, stack, depth, ctl, epoch,
              startEntries, pndStarts, evalCount, calls, rejected, axis, adapter,
              tickEntryPoints, editsAtTick, blockedAttempts, motion, actorAccess, flow>>

\* the auto-save interval fires: the state object goes to storage
AutoSave ==
  /\ persist.phase = "live"
  /\ persist' = [persist EXCEPT !.phase = "saved",
                                !.saved = AutoSaveState(persist.nodes, persist.conns)]
  /\ UnchangedEngine /\ UNCHANGED scene

\* the page loads: createEditor(container, loadScriptStateFromStorage())
CreateEditor ==
  /\ persist.phase \in {"saved", "loaded"}
  /\ persist' = [persist EXCEPT !.phase = IF persist.phase = "saved" THEN "rebuilt"
                                          ELSE "reloaded",
                                !.rebuilt = createEditor(persist.saved)]
  /\ UnchangedEngine /\ UNCHANGED scene

NextPersist == AutoSave \/ CreateEditor

SpecPersist == InitPersist /\ [][NextPersist]_vars

\* ------------------------------------------------- the level scene
\* Player objects ever constructed in the scene are kept in scene.objects
\* (alive: not destroyed); scene.player is an index into it, 0 for no
\* reference (undefined or null)
MaxPlayerObjects == 5
Positions == {0, 1, 2}

NoLevelState == [has |-> FALSE, player |-> FALSE, x |-> 0]

EditorSceneOf(objects, ref, preview, saved) ==
  [on |-> TRUE, objects |-> objects, player |-> ref, isPreviewMode |-> preview,
   savedState |-> saved]

\* the previous Player object stays as it is
KeepObject(objects, ref) == objects

\* player.destroy() on the object scene.player refers to, if any
DestroyObject(objects, ref) ==
  IF ref = 0 THEN objects ELSE [objects EXCEPT ![ref].alive = FALSE]

\* EditorScene.saveState: state.player is set only when a player exists
saveState(sc) ==
  IF sc.player # 0
  THEN [has |-> TRUE, player |-> TRUE, x |-> sc.objects[sc.player].x]
  ELSE [has |-> TRUE, player |-> FALSE, x |-> 0]

\* EditorScene.restoreState: the player is destroyed, the reference kept,
\* and a new Player is made when the state has one
restoreState(sc, state) ==
  LET objects == DestroyObject(sc.objects, sc.player)
  IN  IF state.player
      THEN [sc EXCEPT !.objects = Append(objects, [alive |-> TRUE, x |-> state.x]),
                      !.player = Len(objects) + 1]
      ELSE [sc EXCEPT !.objects = objects]

\* EditorScene.cleanupAllObjects: the player is destroyed and set to null
cleanupAllObjects(sc) ==
  [sc EXCEPT !.objects = DestroyObject(sc.objects, sc.player), !.player = 0]

\* EditorScene.create with the state loaded from storage
InitScene ==
  /\ editorNodes = <<>> /\ editorConns = <<>> /\ updateEntryPoints = <<>>
  /\ edits = 0
  /\ nodeResultCache = [id \in Ids |-> NoEntry]
  /\ isPlayerOnGround = TRUE
  /\ player = Player(TRUE, FALSE, FALSE, InputStateUndef, FALSE)
  /\ keyStates = NoKeys
  /\ stack = <<>>
  /\ depth = 0
  /\ ctl = CtlIdle
  /\ epoch = 0
  /\ startEntries = -1
  /\ pndStarts = ZeroCount
  /\ evalCount = ZeroCount
  /\ calls = <<>>
  /\ rejected = FALSE
  /\ axis = AxisUnset
  /\ adapter = NoAdapter
  /\ tickEntryPoints = <<>>
  /\ editsAtTick = -1
  /\ blockedAttempts = 0
  /\ motion = MotionUnset
  /\ persist = NoPersist
  /\ actorAccess = {}
  /\ flow = FlowUnset
  /\ \E loaded \in {NoLevelState} \cup
                   {[has |-> TRUE, player |-> pl, x |-> x] : pl \in BOOL, x \in Positions} :
       LET blank == EditorSceneOf(<<>>, 0, FALSE, NoLevelState)
       IN  scene = IF loaded.has THEN restoreState(blank, loaded) ELSE blank

\* PlayerTool.onPointerDown (tools are deactivated in preview mode)
PlacePlayer ==
  /\ scene.on /\ ~scene.isPreviewMode /\ Len(scene.objects) < MaxPlayerObjects
  /\ \E x \in Positions :
       LET objects == DestroyObject(scene.objects, scene.player)
       IN  scene' = [scene EXCEPT !.objects = Append(objects, [alive |-> TRUE, x |-> x]),
                                  !.player = Len(objects) + 1]
  /\ UnchangedEngine /\ UNCHANGED persist

\* EditorScene.togglePreview: entering saves the level, leaving cleans up
\* and restores it
TogglePreview ==
  /\ scene.on /\ Len(scene.objects) < MaxPlayerObjects
  /\ IF ~scene.isPreviewMode
     THEN scene' = [scene EXCEPT !.isPreviewMode = TRUE, !.savedState = saveState(scene)]
     ELSE LET left == [scene EXCEPT !.isPreviewMode = FALSE]
          IN  scene' = IF left.savedState.has
                       THEN [restoreState(cleanupAllObjects(left), left.savedState)
                               EXCEPT !.savedState = NoLevelState]
                       ELSE left
  /\ UnchangedEngine /\ UNCHANGED persist

NextScene == PlacePlayer \/ TogglePreview

SpecScene == InitScene /\ [][NextScene]_vars

\* --------------------------------- followExecutionFlow on its own
\* both copies of PlayerLogicProcessor in the repository; Player.js imports
\* the rete-ts one
ProcessorVariants == {"rete", "rete-ts"}

\* kinds of the target nodes of the connections leaving one exec output, in
\* connection order (the pipe lets an exec output reach any input)
MaxTargets == 3
TargetKinds == {"Transform", "Multiply", "Faulty"}

\* followExecutionFlow: indices of the connections whose target node is
\* handed to processNodeDirectly, in order, from connection i on
RECURSIVE FollowFrom(_, _, _)
FollowFrom(variant, targets, i) ==
  IF i > Len(targets) THEN <<>>
  ELSE IF variant = "rete-ts" /\ targets[i] = "Transform"
       THEN <<i>>                         \* break after a TransformNode
       ELSE <<i>> \o FollowFrom(variant, targets, i + 1)

InitFlow ==
  /\ editorNodes = <<>> /\ editorConns = <<>> /\ updateEntryPoints = <<>>
  /\ edits = 0
  /\ nodeResultCache = [id \in Ids |-> NoEntry]
  /\ isPlayerOnGround = TRUE
  /\ player = Player(TRUE, FALSE, FALSE, InputStateUndef, FALSE)
  /\ keyStates = NoKeys
  /\ stack = <<>>
  /\ depth = 0
  /\ ctl = CtlIdle
  /\ epoch = 0
  /\ startEntries = -1
  /\ pndStarts = ZeroCount
  /\ evalCount = ZeroCount
  /\ calls = <<>>
  /\ rejected = FALSE
  /\ axis = AxisUnset
  /\ adapter = NoAdapter
  /\ tickEntryPoints = <<>>
  /\ editsAtTick = -1
  /\ blockedAttempts = 0
  /\ motion = MotionUnset
  /\ persist = NoPersist
  /\ scene = NoScene
  /\ actorAccess = {}
  /\ \E variant \in ProcessorVariants : \E targets \in SeqsUpTo(TargetKinds, MaxTargets) :
       flow = [done |-> FALSE, variant |-> variant, targets |-> targets,
               processed |-> <<>>]

\* one followExecutionFlow(entry, 'execOut', context) call of the drawn copy
EvalFlow ==
  /\ ~flow.done
  /\ flow' = [flow EXCEPT !.done = TRUE,
                          !.processed = FollowFrom(flow.variant, flow.targets, 1)]
  /\ UNCHANGED <<editorNodes, editorConns, edits, updateEntryPoints, nodeResultCache,
                 isPlayerOnGround, player, keyStates, stack, depth, ctl, epoch,
                 startEntries, pndStarts, evalCount, calls, rejected, axis, adapter,
                 tickEntryPoints, editsAtTick, blockedAttempts, motion, persist,
                 scene, actorAccess>>

NextFlow == EvalFlow

SpecFlow == InitFlow /\ [][NextFlow]_vars

\* ================================================================ claims

CallsOn(ax) == {i \in 1..Len(calls) : calls[i].axis = ax}
CallsBy(id, ax) == {i \in 1..Len(calls) : calls[i].by = id /\ calls[i].axis = ax}

ExecWired(id) ==
  \E i \in 1..Len(editorConns) :
    editorConns[i].target = id /\ editorConns[i].targetInput = "execIn"

KindOf(id) == GetNode(editorNodes, id).kind

\* C1: in every frame each node's data function is invoked at most once,
\* whatever the number of paths that reach it.
C1_EvaluatedAtMostOnce == \A id \in Ids : evalCount[id] <= 1

\* C2: the result cache is empty when a frame's traversal begins, and every
\* result it holds (so every result a cache hit returns) was stored in the
\* current frame, never in an earlier one.
TraversalBegins ==
  Len(stack) = 1 /\ Top.fn = "PL" /\ Top.k = 1 /\ ctl.op = "call"

C2_CacheFreshEachFrame ==
  /\ TraversalBegins => \A id \in Ids : ~nodeResultCache[id].has
  /\ \A id \in Ids : nodeResultCache[id].has => nodeResultCache[id].ep = epoch

\* a later frame, after an edit, with results of its own in the cache
C2_Witness ==
  /\ epoch = 0 /\ startEntries > 0 /\ edits > 0
  /\ \E id \in Ids : nodeResultCache[id].has

\* C3: within one frame processNodeDirectly never starts the body of a node
\* a second time, neither while the first is in progress nor after it.
C3_NoReentry == \A id \in Ids : pndStarts[id] <= 1

\* C4: per frame the actor receives at most one setVelocityX call and at
\* most one setVelocityY call, whatever the graph.
C4_OneCallPerAxis ==
  Cardinality(CallsOn("x")) <= 1 /\ Cardinality(CallsOn("y")) <= 1

\* C5: no processLogic promise is ever rejected.
C5_NeverRejected == ~rejected

\* a frame has finished in which a node's data function threw
C5_Witness ==
  Idle /\ \E id \in Ids : KindOf(id) = "Faulty" /\ evalCount[id] > 0

\* C6: when a frame ends (the actor having a physics body), every Transform
\* whose exec input is wired to the exec output of an entry point has been
\* evaluated and has set the horizontal velocity, throwing nodes or not.
FiredFrom(entry, ev, cs) ==
  \A i \in 1..Len(editorConns) :
    LET c == editorConns[i]
    IN  ( /\ c.source = entry.id /\ c.sourceOutput = "execOut"
          /\ c.targetInput = "execIn" /\ KindOf(c.target) = "Transform" )
        => /\ ev[c.target] >= 1
           /\ \E n \in 1..Len(cs) : cs[n].by = c.target /\ cs[n].axis = "x"

C6_SiblingBranchesComplete ==
  [][ (~Idle /\ ctl'.op = "idle" /\ player.hasBody)
        => \A e \in 1..Len(updateEntryPoints) :
             FiredFrom(updateEntryPoints[e], evalCount', calls') ]_vars

\* a frame has finished in which a node threw and two Transform nodes fired
C6_Witness ==
  /\ Idle /\ \E id \in Ids : KindOf(id) = "Faulty" /\ evalCount[id] > 0
  /\ \E a, b \in Ids : a # b /\ CallsBy(a, "x") # {} /\ CallsBy(b, "x") # {}
  /\ Len(calls) >= 2

\* C7: a frame started with no entry point evaluates no node, calls no
\* setter and throws nothing.
C7_NoEntryPointsInert ==
  startEntries = 0 =>
    /\ \A id \in Ids : evalCount[id] = 0 /\ pndStarts[id] = 0
    /\ calls = <<>>
    /\ ~rejected

\* such a frame has run on a graph that has nodes and connections
C7_Witness ==
  /\ startEntries = 0 /\ Idle /\ player.hasBody
  /\ Len(editorNodes) > 0 /\ Len(editorConns) > 0

\* C8: a Transform whose exec input has no connection never calls a setter.
C8_NoExecNoSetter ==
  [][ \A i \in 1..Len(calls') : i > Len(calls) => ExecWired(calls'[i].by) ]_vars

\* a Transform without exec connection was evaluated, with a wired input
C8_Witness ==
  \E id \in Ids :
    /\ KindOf(id) = "Transform" /\ evalCount[id] > 0 /\ ~ExecWired(id)
    /\ player.hasBody /\ Idle
    /\ \E i \in 1..Len(editorConns) : editorConns[i].target = id

\* C9: setVelocityY is called only for a jump (on the ground, Y < 0) or an
\* airborne fast fall (in the air, Y > 0).
C9_VerticalOnlyJumpOrAirborneFall ==
  \A i \in CallsOn("y") :
    \/ isPlayerOnGround /\ calls[i].raw < 0
    \/ ~isPlayerOnGround /\ calls[i].raw > 0

\* C10: with the jump button held the touch contribution to the vertical
\* axis is -1, whatever the down button; +1 only with down and without jump.
C10_JumpPrecedence ==
  axis.done =>
    /\ (player.inputState.def /\ player.inputState.jump) => axis.touchV = -1
    /\ axis.touchV = 1 => (player.kbDown /\ ~player.inputState.jump)

\* C11: the graph never holds a connection from an exec output to an input
\* that is not an exec input.
C11_NoExecOutputToDataInput ==
  \A i \in 1..Len(editorConns) :
    editorConns[i].sourceOutput = "execOut" => editorConns[i].targetInput = "execIn"

\* C12: the graph never holds a connection into an exec input from an output
\* that is not an exec output, and a blocked attempt leaves the connections
\* as they were.
C12_ExecInputOnlyFromExecOutput ==
  /\ \A i \in 1..Len(editorConns) :
       editorConns[i].targetInput = "execIn" => editorConns[i].sourceOutput = "execOut"
  /\ [][ /\ \A i \in 1..Len(editorConns') :
             editorConns'[i].targetInput = "execIn"
               => editorConns'[i].sourceOutput = "execOut"
         /\ blockedAttempts' > blockedAttempts => editorConns' = editorConns ]_vars

\* an attempt was blocked on a graph that has data outputs and exec inputs
C12_Witness ==
  /\ blockedAttempts > 0
  /\ \E i, j \in 1..Len(editorNodes) :
       /\ NodeOutputs(editorNodes[i].kind) # <<>>
       /\ ~HasExecOut(editorNodes[i].kind)
       /\ "execIn" \in Range(NodeInputs(editorNodes[j].kind))

\* a step in which processLogic is called
TickStarts == epoch' # epoch

\* the graph's counts differ from the counts the adapter stored last
GraphCountsChanged ==
  \/ Len(editorNodes) # adapter.lastNodeCount
  \/ Len(editorConns) # adapter.lastConnectionCount

\* C13: when the node count or the connection count has changed since the
\* last frame, the next frame iterates the entry points of the edited graph.
C13_RediscoveryBeforeNextTick ==
  [][ (TickStarts /\ GraphCountsChanged)
        => tickEntryPoints' = findEntryPoints(editorNodes) ]_vars

\* C14: a frame that follows another frame with no edit in between iterates
\* exactly the OnUpdate nodes of the graph (only the first frame after an
\* edit may use other entry points).
C14_AtMostOneStaleTick ==
  [][ (TickStarts /\ editsAtTick = edits)
        => Range(tickEntryPoints') = Range(findEntryPoints(editorNodes)) ]_vars

\* C15: when Player.update goes on to its change detection, the frame it
\* started has run to its end.
C15_TickCompletesInsideUpdate ==
  [][ (adapter.inUpdate /\ ~adapter'.inUpdate) => (ctl.op = "idle" /\ stack = <<>>) ]_vars

KeyOnly(k, opposite) == keyStates[k] /\ ~keyStates[opposite]
TouchLeftOnly == player.inputState.def /\ player.inputState.left /\ ~player.inputState.right
TouchRightOnly == player.inputState.def /\ player.inputState.right /\ ~player.inputState.left
TouchUpOnly == player.inputState.def /\ player.inputState.jump /\ ~player.kbDown
TouchDownOnly == player.inputState.def /\ player.kbDown /\ ~player.inputState.jump

TransformRuns(id) ==
  /\ ctl.op = "ret" /\ Len(stack) > 0 /\ Top.fn = "PND" /\ Top.pc # "follow"
  /\ Top.node.id = id /\ Top.node.kind = "Transform"
  /\ evalCount'[id] = evalCount[id] + 1

\* the setter calls on axis ax made by the step
NewCallsOn(ax) == {i \in (Len(calls) + 1)..Len(calls') : calls'[i].axis = ax}

MotionCallsOn(ax) == {i \in 1..Len(motion.calls) : motion.calls[i].axis = ax}

\* C17: a Transform whose exec input is connected calls setVelocityX exactly
\* once per evaluation, with the first value of its X input unscaled, and
\* with 0 when X has no value, whatever the ground state and the Y input.
C17_HorizontalAlwaysSetRaw ==
  (motion.done /\ motion.exec) =>
    /\ Cardinality(MotionCallsOn("x")) = 1
    /\ \A i \in MotionCallsOn("x") :
         motion.calls[i].v2 = 2 * (IF Len(motion.x) > 0 THEN motion.x[1] ELSE 0)

\* C18: a Transform whose exec input is connected, evaluated in the air with
\* a positive Y, calls setVelocityY with gravity + Y * 0.5 (602 for Y = 4),
\* whatever the current vertical velocity.
C18_FastFallGravityPlusHalfY ==
  ( /\ motion.done /\ motion.exec /\ ~motion.ground
    /\ Len(motion.y) > 0 /\ motion.y[1] > 0 )
  => /\ Cardinality(MotionCallsOn("y")) = 1
     /\ \A i \in MotionCallsOn("y") : motion.calls[i].v2 = 2 * Gravity + motion.y[1]

\* C22: the engine touches the actor's kinematics only through the velocity
\* setters: neither the processor nor a node reads or writes the actor's
\* position (x, y), in construction or in any frame.
C22_NeverTouchesPosition == actorAccess \cap {"x", "y"} = {}

NodeFacts(nodes) == {<<nodes[i].id, nodes[i].kind, nodes[i].control>> : i \in 1..Len(nodes)}

\* C21: saving the editor's graph and rebuilding the editor from the saved
\* state gives the same node ids with the same kinds, the same Float control
\* values and the same set of connections.
C21_SaveRestoreRoundTrip ==
  persist.phase = "rebuilt" =>
    /\ ~persist.rebuilt.threw
    /\ NodeFacts(persist.rebuilt.nodes) = NodeFacts(persist.nodes)
    /\ Range(persist.rebuilt.conns) = Range(persist.conns)

LivePlayers == {i \in 1..Len(scene.objects) : scene.objects[i].alive}

\* C23: at most one Player object is alive in the level, and it is the one
\* scene.player refers to, after any placements, restores and preview
\* toggles.
C23_OnePlayer ==
  scene.on => /\ Cardinality(LivePlayers) <= 1
              /\ LivePlayers \subseteq {scene.player}

\* a second placement and a restore behind it: earlier objects destroyed
C23_Witness ==
  /\ scene.on /\ Len(scene.objects) >= 3 /\ ~scene.isPreviewMode
  /\ LivePlayers = {scene.player}

C25_EveryExecTargetFollowed ==
  flow.done => flow.processed = [i \in 1..Len(flow.targets) |-> i]

\* processNodeDirectly is about to run data() of node id
NodeRuns(id) ==
  /\ ctl.op = "ret" /\ Len(stack) > 0 /\ Top.fn = "PND" /\ Top.pc # "follow"
  /\ Top.node.id = id
  /\ evalCount'[id] = evalCount[id] + 1

DataInputs == {"a", "b", "x", "y"}

\* connections into an input whose source node exists and does not throw
SoundSources(id, name) ==
  {i \in 1..Len(editorConns) :
     /\ editorConns[i].target = id /\ editorConns[i].targetInput = name
     /\ KindOf(editorConns[i].source) \notin {"Faulty", "none"}}

\* data connections from a throwing source to a consumer that does not throw
FaultyWires ==
  {i \in 1..Len(editorConns) :
     /\ KindOf(editorConns[i].source) = "Faulty"
     /\ editorConns[i].targetInput \in DataInputs
     /\ KindOf(editorConns[i].target) \notin {"Faulty", "none"}}

\* C26: a source whose evaluation throws puts nothing into its consumer's
\* input list, the consumer is still evaluated, with its default where only
\* throwing sources are wired, and the rest of the frame is processed.
C26_ThrowingSourceLeavesNoValue ==
  /\ [][ \A id \in Ids : NodeRuns(id) =>
           /\ \A name \in DataInputs :
                Len(ctl.ins[name]) <= Cardinality(SoundSources(id, name))
           /\ ( /\ KindOf(id) = "Transform" /\ Len(ctl.ins["execIn"]) > 0
                /\ player.hasBody /\ SoundSources(id, "x") = {} )
              => \A i \in NewCallsOn("x") : calls'[i].v2 = 0 ]_vars
  /\ [][ (~Idle /\ ctl'.op = "idle" /\ player.hasBody) =>
           /\ \A i \in FaultyWires :
                pndStarts'[editorConns[i].target] > 0
                  => evalCount'[editorConns[i].target] > 0
           /\ (\E i \in FaultyWires : evalCount'[editorConns[i].source] > 0)
                => \A e \in 1..Len(tickEntryPoints) :
                     evalCount'[tickEntryPoints[e].id] > 0 ]_vars

\* a frame has finished in which a source threw while its consumer pulled
\* it, the consumer set the horizontal velocity to its default and a later
\* entry point's Transform fired too
C26_Witness ==
  /\ Idle /\ player.hasBody
  /\ \E i \in FaultyWires :
       /\ evalCount[editorConns[i].source] > 0
       /\ editorConns[i].targetInput = "x"
       /\ \E n \in CallsBy(editorConns[i].target, "x") : calls[n].v2 = 0
       /\ \E other \in Ids : other # editorConns[i].target /\ CallsBy(other, "x") # {}

\* the editor createEditor has built
Rebuilt == persist.rebuilt

HasOutputSocket(nodes, id, name) ==
  \E k \in 1..Len(nodes) : nodes[k].id = id /\ name \in Range(NodeOutputs(nodes[k].kind))

HasInputSocket(nodes, id, name) ==
  \E k \in 1..Len(nodes) : nodes[k].id = id /\ name \in Range(NodeInputs(nodes[k].kind))

\* saved connection states createEditor did not add
Dropped ==
  {i \in 1..Len(persist.saved.connections) :
     persist.saved.connections[i] \notin Range(Rebuilt.conns)}

\* C27: after createEditor has rebuilt the editor from a saved state, every
\* connection has a source node with the named output and a target node
\* with the named input in the graph, and no two nodes have the same id.
C27_NoDanglingConnection ==
  persist.phase \in {"rebuilt", "reloaded"} =>
    /\ \A i \in 1..Len(Rebuilt.conns) :
         /\ HasOutputSocket(Rebuilt.nodes, Rebuilt.conns[i].source,
                            Rebuilt.conns[i].sourceOutput)
         /\ HasInputSocket(Rebuilt.nodes, Rebuilt.conns[i].target,
                           Rebuilt.conns[i].targetInput)
    /\ \A i, j \in 1..Len(Rebuilt.nodes) :
         Rebuilt.nodes[i].id = Rebuilt.nodes[j].id => i = j

\* a stored state with a node of unknown kind and a connection naming a
\* node or socket that is not there was loaded: two nodes were made of it
\* and the connection was left out
C27_Witness ==
  /\ persist.phase = "reloaded"
  /\ ~Rebuilt.threw
  /\ Len(persist.saved.nodes) > Len(Rebuilt.nodes)
  /\ Len(Rebuilt.nodes) >= 1
  /\ Dropped # {}

\* C28: every node processed during a frame, reached through an exec
\* connection or pulled for another node's input, is passed the context
\* object processLogic built at the start of the frame.
C28_SameContext ==
  \A k \in 1..Len(stack) : stack[k].fn = "PND" => stack[k].ctx.full

\* some connection from an exec output of a node processed in this frame
\* ends at node id
ExecLedTo(id) ==
  \E i \in 1..Len(editorConns) :
    /\ editorConns[i].target = id /\ editorConns[i].sourceOutput = "execOut"
    /\ pndStarts[editorConns[i].source] > 0

\* connections into the X or Y input of node id
MotionWires(id) ==
  {i \in 1..Len(editorConns) :
     editorConns[i].target = id /\ editorConns[i].targetInput \in {"x", "y"}}

\* C29: a Transform node is evaluated, and a velocity setter is called,
\* only for a Transform that is the target of a connection from the exec
\* output of a node visited in the frame's traversal; nothing else calls a
\* setter, whatever is wired to a Transform's X and Y inputs.
C29_SettersOnlyThroughExec ==
  /\ [][ \A id \in Ids : TransformRuns(id) => ExecLedTo(id) ]_vars
  /\ [][ Len(calls') > Len(calls) =>
           \E id \in Ids :
             /\ TransformRuns(id) /\ ExecLedTo(id)
             /\ \A i \in (Len(calls) + 1)..Len(calls') : calls'[i].by = id ]_vars

\* a frame has finished in which one Transform, led to from an entry
\* point, set the velocity, and another with a wired X or Y input and no
\* exec connection was not evaluated
C29_Witness ==
  /\ Idle /\ player.hasBody
  /\ \E a, b \in Ids :
       /\ a # b /\ KindOf(a) = "Transform" /\ KindOf(b) = "Transform"
       /\ CallsBy(a, "x") # {}
       /\ MotionWires(b) # {} /\ ~ExecLedTo(b)
       /\ evalCount[b] = 0 /\ CallsBy(b, "x") = {}

\* onEditorChanged has run and the graph has not been edited since
ChangeHandled == adapter.attached /\ adapter.handledAt = edits

\* some connection of the graph ends at a Transform node
TransformWired ==
  \E i \in 1..Len(editorConns) : KindOf(editorConns[i].target) = "Transform"

\* the step is the first part of Player.update
UpdateStarts == ~adapter.inUpdate /\ adapter'.inUpdate

====
